---- MODULE Spec2Model ----
(***************************************************************************)
(* nabu: `nabu watch <dir>` (src/src/bin/nabu).  WatchArgs::run merges the  *)
(* invocation with a settings file, lists the directories to watch, opens  *)
(* the repository backend, resolves the authentication method and hands    *)
(* everything to Watch::run: the run loop (bounded receive, one stage and  *)
(* one commit per translated event), the exit snapshot and the push task.  *)
(*                                                                         *)
(* Option<T> values are sets with at most one element ({} is None).        *)
(* A formatted String is the sequence of its pieces.                       *)
(***************************************************************************)
EXTENDS Naturals, Sequences, FiniteSets

\* ------------------------------------------------------------- bounds
\* Events the watcher delivers in one run.
MaxEvents == 2
\* Distinct readings of chrono::Utc::now().
MaxTime == 1

\* ---------------------------------------------------------- constants
DEFAULT_DELAY == 30
\* sig_rcv.recv_timeout(Duration::from_secs(5))
PUSH_TIMEOUT == 5
\* The watched tree: w/{.git/{objects}, sub, a.txt}; b.txt and the raw name
\* (bytes that are not UTF-8) are files that events may name.
Root == "w"
RawPath == "w/<FF>"
DirPaths == {"w", "w/.git", "w/.git/objects", "w/sub"}

Children(p) ==
  CASE p = "w" -> {"w/.git", "w/sub", "w/a.txt"}
    [] p = "w/.git" -> {"w/.git/objects"}
    [] OTHER -> {}

\* Path::file_name
file_name(p) ==
  CASE p = "w" -> "w"
    [] p = "w/.git" -> ".git"
    [] p = "w/.git/objects" -> "objects"
    [] p = "w/sub" -> "sub"
    [] p = "w/a.txt" -> "a.txt"
    [] p = "w/b.txt" -> "b.txt"
    [] OTHER -> "<FF>"

\* Path::is_dir
is_dir(p) == p \in DirPaths

\* Path::to_str: None for a path that is not valid UTF-8.
to_str(p) == IF p = RawPath THEN {} ELSE {p}

\* Option::unwrap on a value known to be Some.
Unwrap(o) == CHOOSE v \in o : TRUE

Range(s) == {s[i] : i \in 1..Len(s)}

\* ------------------------------------------------------- configuration
\* A settings file as it is on disk: absent, not parseable, or a TOML
\* document whose keys may be missing.  push_timeout is a key Config has no
\* field for.
NoToml == [state |-> "missing", delay |-> {}, ignore |-> {}, push_on_exit |-> {},
           push_timeout |-> {}]
TomlEmpty == [NoToml EXCEPT !.state = "ok"]
TomlFull == [state |-> "ok", delay |-> {12}, ignore |-> {<<"sub">>}, push_on_exit |-> {TRUE},
             push_timeout |-> {2}]
TomlZero == [TomlEmpty EXCEPT !.delay = {0}]
Files == {NoToml, [NoToml EXCEPT !.state = "invalid"], TomlEmpty, TomlFull, TomlZero}

\* impl Default for Config
ConfigDefault == [delay |-> DEFAULT_DELAY, ignore |-> <<>>, push_on_exit |-> FALSE]

\* serde: a missing key takes its #[serde(default)], a key that Config has
\* no field for is dropped.
Deserialize(toml) ==
  [delay |-> IF toml.delay = {} THEN DEFAULT_DELAY ELSE Unwrap(toml.delay),
   ignore |-> IF toml.ignore = {} THEN <<>> ELSE Unwrap(toml.ignore),
   push_on_exit |-> IF toml.push_on_exit = {} THEN FALSE ELSE Unwrap(toml.push_on_exit)]

\* Config::from_path: Err (the empty set) when the file cannot be read or
\* parsed, else Ok(config).
from_path(file) ==
  IF file.state # "ok" THEN {} ELSE {Deserialize(file)}

\* The config update_from_config loads when no --config was given:
\* local, or else global, or else the default.
LoadImplicit(fs) ==
  IF from_path(fs.local) # {} THEN Unwrap(from_path(fs.local))
  ELSE IF from_path(fs.global) # {} THEN Unwrap(from_path(fs.global))
  ELSE ConfigDefault

\* Mutant of MergeArgs: the settings file's delay overrides the CLI's.
MergeArgsFileFirst(a, config) ==
  [a EXCEPT !.delay = {config.delay},
            !.ignore = IF a.ignore = <<>> THEN config.ignore ELSE a.ignore,
            !.push_on_exit = a.push_on_exit \/ config.push_on_exit]

\* The three field merges of update_from_config.
MergeArgs(a, config) ==
  [a EXCEPT !.delay = IF a.delay = {} THEN {config.delay} ELSE a.delay,
            !.ignore = IF a.ignore = <<>> THEN config.ignore ELSE a.ignore,
            !.push_on_exit = a.push_on_exit \/ config.push_on_exit]

\* fs::list_subdirs: WalkDir with filter_entry, which does not descend into
\* an entry it rejects.
RECURSIVE Walk(_, _)
Walk(p, ignored) ==
  IF is_dir(p) /\ file_name(p) \notin ignored
  THEN {p} \cup UNION {Walk(c, ignored) : c \in Children(p)}
  ELSE {}

\* Mutant of list_subdirs: filter in place of filter_entry, an excluded
\* directory is dropped but the walk still descends into it.
ListSubdirsNoPrune(directory, ignored) ==
  {d \in Walk(directory, {}) : file_name(d) \notin ignored}

list_subdirs(directory, ignored) == Walk(directory, ignored)

\* WatchArgs::list_watched_directories
list_watched_directories(a) == list_subdirs(a.directory, Range(a.ignore))

\* ------------------------------------------------------ authentication
AuthNone == [ssh_agent |-> FALSE, ssh_key |-> {}, https_username |-> {}, https_password |-> {}]
AuthInputs ==
  {[AuthNone EXCEPT !.ssh_agent = TRUE],
   [AuthNone EXCEPT !.ssh_key = {"key"}],
   [AuthNone EXCEPT !.ssh_key = {"nokey"}],
   [AuthNone EXCEPT !.https_username = {"u"}, !.https_password = {"p"}],
   [AuthNone EXCEPT !.https_username = {"u"}],
   AuthNone}

\* PathBuf::exists for the key file.
KeyExists(k) == k = "key"

\* Mutant of get_authentication_method: missing HTTPS credentials are empty
\* strings (unwrap_or_default) instead of a panic.
GetAuthenticationMethodLenient(a) ==
  IF a.auth.ssh_agent THEN {[kind |-> "SshAgent"]}
  ELSE IF a.auth.ssh_key # {}
       THEN IF KeyExists(Unwrap(a.auth.ssh_key)) THEN {[kind |-> "SshKey"]} ELSE {}
  ELSE {[kind |-> "Https"]}

\* WatchArgs::get_authentication_method: the method, or {} where the code
\* panics (a missing key file, an unwrap of a missing username or password).
get_authentication_method(a) ==
  IF a.auth.ssh_agent THEN {[kind |-> "SshAgent"]}
  ELSE IF a.auth.ssh_key # {}
       THEN IF KeyExists(Unwrap(a.auth.ssh_key)) THEN {[kind |-> "SshKey"]} ELSE {}
  ELSE IF a.auth.https_username # {} /\ a.auth.https_password # {}
       THEN {[kind |-> "Https"]}
  ELSE {}

\* -------------------------------------------------------------- events
\* notify::DebouncedEvent; `new` is used by Rename only.
Ev(kind, path, new) == [kind |-> kind, path |-> path, new |-> new]
NoEvent == Ev("None", "", "")
Events ==
  {Ev("Create", "w/a.txt", ""), Ev("Create", "w/sub", ""),
   Ev("Write", "w/a.txt", ""), Ev("Write", RawPath, ""),
   Ev("Chmod", "w/a.txt", ""), Ev("Remove", "w/a.txt", ""),
   Ev("Rename", "w/a.txt", "w/b.txt"), Ev("Rename", RawPath, "w/b.txt"),
   Ev("NoticeWrite", "w/a.txt", ""), Ev("NoticeRemove", "w/a.txt", ""),
   Ev("Rescan", "", ""), Ev("Error", "", "")}

TimestampNames == <<"T1", "T2", "T3">>
Timestamps == {TimestampNames[i] : i \in 1..MaxTime}

\* What handle_event's match yields: a (path, message) pair, an early
\* return, or a panic (todo!(), or to_str().unwrap() on a raw path).
Request(path, message) == [outcome |-> "request", path |-> path, message |-> message]
Return == [outcome |-> "return", path |-> "", message |-> <<>>]
Panic == [outcome |-> "panic", path |-> "", message |-> <<>>]
NoRequest == [outcome |-> "none", path |-> "", message |-> <<>>]

\* The handle_event! macro: format!($message, path.to_str().unwrap(), now).
handle_event_macro(path, prefix, now) ==
  IF to_str(path) = {} THEN Panic
  ELSE Request(path, <<prefix, Unwrap(to_str(path)), " @ ", now>>)

\* Mutant of RenameArm: the pair carries the old path.
RenameArmOld(old, new, now) ==
  IF to_str(old) = {} \/ to_str(new) = {} THEN Panic
  ELSE Request(old, <<"renamed file ", Unwrap(to_str(old)), " to ", Unwrap(to_str(new)), " @ ", now>>)

\* The Rename arm.
RenameArm(old, new, now) ==
  IF to_str(old) = {} \/ to_str(new) = {} THEN Panic
  ELSE Request(new, <<"renamed file ", Unwrap(to_str(old)), " to ", Unwrap(to_str(new)), " @ ", now>>)

\* Mutant of Translate: Rescan and Error return like the notices.
TranslateRescanReturns(ev, now) ==
  CASE ev.kind = "Create" ->
         IF is_dir(ev.path) THEN Return
         ELSE handle_event_macro(ev.path, "created file ", now)
    [] ev.kind = "Write" -> handle_event_macro(ev.path, "written file ", now)
    [] ev.kind = "Chmod" -> handle_event_macro(ev.path, "chmod file ", now)
    [] ev.kind = "Remove" -> handle_event_macro(ev.path, "deleted file ", now)
    [] ev.kind = "Rename" -> RenameArm(ev.path, ev.new, now)
    [] OTHER -> Return

\* Mutant of Translate: the Create arm without the is_dir check.
TranslateNoDirCheck(ev, now) ==
  CASE ev.kind = "Create" -> handle_event_macro(ev.path, "created file ", now)
    [] ev.kind = "Write" -> handle_event_macro(ev.path, "written file ", now)
    [] ev.kind = "Chmod" -> handle_event_macro(ev.path, "chmod file ", now)
    [] ev.kind = "Remove" -> handle_event_macro(ev.path, "deleted file ", now)
    [] ev.kind = "Rename" -> RenameArm(ev.path, ev.new, now)
    [] ev.kind \in {"Rescan", "Error"} -> Panic
    [] OTHER -> Return

\* The match of Watch::handle_event.
Translate(ev, now) ==
  CASE ev.kind = "Create" ->
         IF is_dir(ev.path) THEN Return
         ELSE handle_event_macro(ev.path, "created file ", now)
    [] ev.kind = "Write" -> handle_event_macro(ev.path, "written file ", now)
    [] ev.kind = "Chmod" -> handle_event_macro(ev.path, "chmod file ", now)
    [] ev.kind = "Remove" -> handle_event_macro(ev.path, "deleted file ", now)
    [] ev.kind = "Rename" -> RenameArm(ev.path, ev.new, now)
    [] ev.kind \in {"Rescan", "Error"} -> Panic
    [] OTHER -> Return

ExitMessage(now) == <<"nabu exited snapshot @ ", now>>

\* One call on the Repository backend.
Call(op, arg, res) == [op |-> op, arg |-> arg, res |-> res]

\* What a backend call can return: DummyRepository always Ok(()).
Results(repo) == IF repo = "Dummy" THEN {"Ok"} ELSE {"Ok", "Err"}

\* --------------------------------------------------------------- state
VARIABLES
  cli,          \* the parsed invocation (WatchArgs as clap built it)
  settings,     \* the settings files on disk: explicit, local, global
  asked,        \* push_timeout of the settings file that was loaded ({}: no such key)
  args,         \* WatchArgs::run's `self`
  watchlist,    \* watched_directories, from WatchArgs::run to the watcher
  delay,        \* delay, from WatchArgs::run to the watcher
  repo,         \* the backend: "none", "Dummy" or "Watched"
  watch,        \* the Watch value: push_on_exit, authentication_method
  running,      \* the AtomicBool `watching`
  queue,        \* events sent on event_snd and not yet received
  connected,    \* a sender of the event channel is alive
  delivered,    \* events sent so far
  sent,         \* the events sent on event_snd, in the order they were sent
  pc,           \* where the main thread is
  exit,         \* "none", or how the process ended: "ok", "error", "panic"
  event,        \* the event handle_event was given
  request,      \* handle_event's (path, message)
  calls,        \* the calls made on the backend, in order
  push,         \* the push thread: "none", "spawned", "pushing", "returned", "sent", "panicked"
  mutex,        \* the Mutex around the backend: "none", "free" or "held"
  signal,       \* messages in the sig_snd/sig_rcv channel
  waited        \* seconds sig_rcv.recv_timeout has been blocked for

vars == <<cli, settings, asked, args, watchlist, delay, repo, watch, running, queue,
          connected, delivered, sent, pc, exit, event, request, calls, push, mutex, signal,
          waited>>

setupVars == <<cli, settings, asked, args, watchlist, delay, repo, watch>>
loopVars == <<queue, connected, delivered, sent, event, request, calls, push, mutex, signal,
               waited>>

NoArgs == [directory |-> "", delay |-> {}, ignore |-> <<>>, config |-> {}, push_on_exit |-> FALSE,
           dry_run |-> FALSE, auth |-> AuthNone]
NoSettings == [explicit |-> NoToml, local |-> NoToml, global |-> NoToml]
NoWatch == [push_on_exit |-> FALSE, authentication_method |-> [kind |-> "None"]]

\* The invocations clap can hand to WatchArgs::run (`recursive` is never read).
Invocations ==
  [directory : {Root}, delay : {{}, {0}, {7}}, ignore : {<<>>, <<".git">>}, config : {{}, {"explicit"}},
   push_on_exit : BOOLEAN, dry_run : BOOLEAN, auth : AuthInputs]

\* The settings files update_from_config can read: the --config path when
\* one is given, the local and the global path when none is.
SettingsOf(a) ==
  IF a.config # {}
  THEN [explicit : Files, local : {NoToml}, global : {NoToml}]
  ELSE [explicit : {NoToml}, local : Files, global : Files]

Init ==
  /\ cli \in Invocations
  /\ settings \in SettingsOf(cli)
  /\ asked = {}
  /\ args = cli
  /\ watchlist = {}
  /\ delay = {}
  /\ repo = "none"
  /\ watch = NoWatch
  /\ running = TRUE
  /\ queue = <<>>
  /\ connected = FALSE
  /\ delivered = 0
  /\ sent = <<>>
  /\ pc = "update_from_config"
  /\ exit = "none"
  /\ event = NoEvent
  /\ request = NoRequest
  /\ calls = <<>>
  /\ push = "none"
  /\ mutex = "none"
  /\ signal = 0
  /\ waited = 0

Alive == exit = "none"

\* ------------------------------------------------------ WatchArgs::run
\* The config update_from_config merges from: {} where the code panics
\* (from_path(..).unwrap() on the --config path).
LoadConfig(a, fs) ==
  IF a.config # {} THEN from_path(fs.explicit) ELSE {LoadImplicit(fs)}

\* The settings file LoadConfig deserialized (NoToml: none, the default).
LoadedFile(a, fs) ==
  IF a.config # {} THEN fs.explicit
  ELSE IF from_path(fs.local) # {} THEN fs.local
  ELSE IF from_path(fs.global) # {} THEN fs.global
  ELSE NoToml

\* WatchArgs::update_from_config
UpdateFromConfig ==
  /\ Alive /\ pc = "update_from_config"
  /\ IF LoadConfig(args, settings) = {}
     THEN /\ exit' = "panic"
          /\ UNCHANGED <<args, asked, pc>>
     ELSE /\ args' = MergeArgs(args, Unwrap(LoadConfig(args, settings)))
          /\ asked' = LoadedFile(args, settings).push_timeout
          /\ pc' = "list_watched_directories"
          /\ UNCHANGED exit
  /\ UNCHANGED <<cli, settings, watchlist, delay, repo, watch, running>>
  /\ UNCHANGED loopVars

\* let watched_directories = self.list_watched_directories();
\* let delay = self.delay.unwrap_or(DEFAULT_DELAY);
ListWatchedDirectories ==
  /\ Alive /\ pc = "list_watched_directories"
  /\ watchlist' = list_watched_directories(args)
  /\ delay' = IF args.delay = {} THEN {DEFAULT_DELAY} ELSE args.delay
  /\ pc' = "open_repository"
  /\ UNCHANGED <<cli, settings, asked, args, repo, watch, running, exit>>
  /\ UNCHANGED loopVars

\* DummyRepository under --dry-run; else canonicalize()? and
\* WatchedRepository::new(directory)?, whose Err run returns.
OpenRepository ==
  /\ Alive /\ pc = "open_repository"
  /\ \E ok \in BOOLEAN :
       IF args.dry_run \/ ok
       THEN /\ repo' = (IF args.dry_run THEN "Dummy" ELSE "Watched")
            /\ pc' = "Watch::new"
            /\ UNCHANGED exit
       ELSE /\ exit' = "error"
            /\ UNCHANGED <<repo, pc>>
  /\ UNCHANGED <<cli, settings, asked, args, watchlist, delay, watch, running>>
  /\ UNCHANGED loopVars

\* Mutant of WatchNew: the authentication method is resolved only when
\* push_on_exit is set.
WatchNewLazyAuth ==
  /\ Alive /\ pc = "Watch::new"
  /\ IF args.push_on_exit /\ get_authentication_method(args) = {}
     THEN /\ exit' = "panic"
          /\ UNCHANGED <<cli, settings, args, watch, pc>>
     ELSE /\ watch' = [push_on_exit |-> args.push_on_exit,
                       authentication_method |->
                         IF args.push_on_exit THEN Unwrap(get_authentication_method(args))
                         ELSE [kind |-> "None"]]
          /\ cli' = NoArgs /\ args' = NoArgs /\ settings' = NoSettings
          /\ pc' = "watcher"
          /\ UNCHANGED exit
  /\ UNCHANGED <<asked, watchlist, delay, repo, running>>
  /\ UNCHANGED loopVars

\* Watch::new(repo, watching, watched_directories, delay, push_on_exit,
\* get_authentication_method().unwrap()): the invocation is moved into the
\* Watch value and neither it nor the settings files are read again.
WatchNew ==
  /\ Alive /\ pc = "Watch::new"
  /\ IF get_authentication_method(args) = {}
     THEN /\ exit' = "panic"
          /\ UNCHANGED <<cli, settings, args, watch, pc>>
     ELSE /\ watch' = [push_on_exit |-> args.push_on_exit,
                       authentication_method |-> Unwrap(get_authentication_method(args))]
          /\ cli' = NoArgs /\ args' = NoArgs /\ settings' = NoSettings
          /\ pc' = "watcher"
          /\ UNCHANGED exit
  /\ UNCHANGED <<asked, watchlist, delay, repo, running>>
  /\ UNCHANGED loopVars

\* Watch::run up to the loop: watcher(event_snd, delay).unwrap() and
\* watcher.watch(dir).unwrap() for every dir of the watchlist.  The watcher
\* takes the delay and the directories; run reads neither again.
Subscribe ==
  /\ Alive /\ pc = "watcher"
  /\ \E ok \in BOOLEAN :
       IF ok
       THEN /\ watchlist' = {} /\ delay' = {}
            /\ connected' = TRUE
            /\ pc' = "while"
            /\ UNCHANGED exit
       ELSE /\ exit' = "panic"
            /\ UNCHANGED <<watchlist, delay, connected, pc>>
  /\ UNCHANGED <<cli, settings, asked, args, repo, watch, running>>
  /\ UNCHANGED <<queue, delivered, sent, event, request, calls, push, mutex, signal, waited>>

\* ---------------------------------------------------------- Watch::run
\* while self.running.load(SeqCst)
LoopCheck ==
  /\ Alive /\ pc = "while"
  /\ pc' = IF running THEN "recv_timeout" ELSE "stage_all"
  /\ event' = NoEvent /\ request' = NoRequest
  /\ UNCHANGED setupVars
  /\ UNCHANGED <<running, exit, queue, connected, delivered, sent, calls, push, mutex, signal, waited>>

\* Mutant of RecvEvent: the event is read but stays in the queue.
RecvEventPeek ==
  /\ Alive /\ pc = "recv_timeout" /\ queue # <<>>
  /\ \E now \in Timestamps :
       LET r == Translate(Head(queue), now) IN
       /\ event' = Head(queue)
       /\ queue' = queue
       /\ request' = r
       /\ pc' = (CASE r.outcome = "request" -> "stage"
                   [] r.outcome = "return" -> "while"
                   [] OTHER -> pc)
       /\ exit' = IF r.outcome = "panic" THEN "panic" ELSE exit
  /\ UNCHANGED setupVars
  /\ UNCHANGED <<running, connected, delivered, sent, calls, push, mutex, signal, waited>>

\* Mutant of RecvEvent: the newest queued event is received first.
RecvEventNewestFirst ==
  /\ Alive /\ pc = "recv_timeout" /\ queue # <<>>
  /\ \E now \in Timestamps :
       LET r == Translate(queue[Len(queue)], now) IN
       /\ event' = queue[Len(queue)]
       /\ queue' = SubSeq(queue, 1, Len(queue) - 1)
       /\ request' = r
       /\ pc' = (CASE r.outcome = "request" -> "stage"
                   [] r.outcome = "return" -> "while"
                   [] OTHER -> pc)
       /\ exit' = IF r.outcome = "panic" THEN "panic" ELSE exit
  /\ UNCHANGED setupVars
  /\ UNCHANGED <<running, connected, delivered, sent, calls, push, mutex, signal, waited>>

\* recv_timeout yields Ok(event): handle_event's match.
RecvEvent ==
  /\ Alive /\ pc = "recv_timeout" /\ queue # <<>>
  /\ \E now \in Timestamps :
       LET r == Translate(Head(queue), now) IN
       /\ event' = Head(queue)
       /\ queue' = Tail(queue)
       /\ request' = r
       /\ pc' = (CASE r.outcome = "request" -> "stage"
                   [] r.outcome = "return" -> "while"
                   [] OTHER -> pc)
       /\ exit' = IF r.outcome = "panic" THEN "panic" ELSE exit
  /\ UNCHANGED setupVars
  /\ UNCHANGED <<running, connected, delivered, sent, calls, push, mutex, signal, waited>>

\* recv_timeout yields Err(Timeout) after 500 ms, or Err(Disconnected).
RecvNothing ==
  /\ Alive /\ pc = "recv_timeout" /\ queue = <<>>
  /\ pc' = "while"
  /\ UNCHANGED setupVars
  /\ UNCHANGED <<running, exit>>
  /\ UNCHANGED loopVars

\* repo.stage(path).unwrap()
Stage ==
  /\ Alive /\ pc = "stage"
  /\ \E res \in Results(repo) :
       /\ calls' = Append(calls, Call("stage", <<request.path>>, res))
       /\ pc' = IF res = "Ok" THEN "commit" ELSE pc
       /\ exit' = IF res = "Ok" THEN exit ELSE "panic"
  /\ UNCHANGED setupVars
  /\ UNCHANGED <<running, queue, connected, delivered, sent, event, request, push, mutex, signal, waited>>

\* repo.commit(&message).unwrap()
Commit ==
  /\ Alive /\ pc = "commit"
  /\ \E res \in Results(repo) :
       /\ calls' = Append(calls, Call("commit", request.message, res))
       /\ pc' = IF res = "Ok" THEN "while" ELSE pc
       /\ exit' = IF res = "Ok" THEN exit ELSE "panic"
  /\ UNCHANGED setupVars
  /\ UNCHANGED <<running, queue, connected, delivered, sent, event, request, push, mutex, signal, waited>>

\* self.repo.stage_all().unwrap()
StageAll ==
  /\ Alive /\ pc = "stage_all"
  /\ \E res \in Results(repo) :
       /\ calls' = Append(calls, Call("stage_all", <<>>, res))
       /\ pc' = IF res = "Ok" THEN "exit_commit" ELSE pc
       /\ exit' = IF res = "Ok" THEN exit ELSE "panic"
  /\ UNCHANGED setupVars
  /\ UNCHANGED <<running, queue, connected, delivered, sent, event, request, push, mutex, signal, waited>>

\* Mutant of ExitCommit: after the exit snapshot the loop receives the events
\* that are still queued.
ExitCommitThenDrain ==
  /\ Alive /\ pc = "exit_commit"
  /\ \E res \in Results(repo), now \in Timestamps :
       /\ calls' = Append(calls, Call("commit", ExitMessage(now), res))
       /\ pc' = IF res = "Ok"
                THEN (IF queue # <<>> THEN "recv_timeout" ELSE "push_on_exit")
                ELSE pc
       /\ exit' = IF res = "Ok" THEN exit ELSE "panic"
  /\ UNCHANGED setupVars
  /\ UNCHANGED <<running, queue, connected, delivered, sent, event, request, push, mutex, signal, waited>>

\* self.repo.commit(&format!("nabu exited snapshot @ {}", now)).unwrap()
ExitCommit ==
  /\ Alive /\ pc = "exit_commit"
  /\ \E res \in Results(repo), now \in Timestamps :
       /\ calls' = Append(calls, Call("commit", ExitMessage(now), res))
       /\ pc' = IF res = "Ok" THEN "push_on_exit" ELSE pc
       /\ exit' = IF res = "Ok" THEN exit ELSE "panic"
  /\ UNCHANGED setupVars
  /\ UNCHANGED <<running, queue, connected, delivered, sent, event, request, push, mutex, signal, waited>>

\* Mutant of SpawnPush: the push thread is spawned whatever push_on_exit is.
SpawnPushAlways ==
  /\ Alive /\ pc = "push_on_exit"
  /\ push' = "spawned"
  /\ mutex' = "free"
  /\ pc' = "wait_push"
  /\ UNCHANGED setupVars
  /\ UNCHANGED <<running, exit, queue, connected, delivered, sent, event, request, calls, signal, waited>>

\* Mutant of SpawnPush: run locks the mutex itself before it spawns the
\* thread and keeps the guard while it waits.
SpawnPushKeepsLock ==
  /\ Alive /\ pc = "push_on_exit" /\ watch.push_on_exit
  /\ push' = "spawned"
  /\ mutex' = "held"
  /\ pc' = "wait_push"
  /\ UNCHANGED setupVars
  /\ UNCHANGED <<running, exit, queue, connected, delivered, sent, event, request, calls, signal,
                 waited>>

\* if self.push_on_exit { ... thread::spawn(...) }
SpawnPush ==
  /\ Alive /\ pc = "push_on_exit" /\ watch.push_on_exit
  /\ push' = "spawned"
  /\ mutex' = "free"
  /\ pc' = "wait_push"
  /\ UNCHANGED setupVars
  /\ UNCHANGED <<running, exit, queue, connected, delivered, sent, event, request, calls, signal, waited>>

\* push_on_exit is false: run returns.
NoPush ==
  /\ Alive /\ pc = "push_on_exit" /\ ~watch.push_on_exit
  /\ pc' = "returned"
  /\ UNCHANGED setupVars
  /\ UNCHANGED <<running, exit>>
  /\ UNCHANGED loopVars

\* A second passes while sig_rcv.recv_timeout is blocked.
WaitTick ==
  /\ Alive /\ pc = "wait_push" /\ signal = 0 /\ waited < PUSH_TIMEOUT
  /\ waited' = waited + 1
  /\ UNCHANGED setupVars
  /\ UNCHANGED <<running, pc, exit, queue, connected, delivered, sent, event, request, calls,
                 push, mutex, signal>>

\* sig_rcv.recv_timeout(5 s) yields Ok(()).
RecvSignal ==
  /\ Alive /\ pc = "wait_push" /\ signal > 0
  /\ signal' = signal - 1
  /\ waited' = 0
  /\ pc' = "returned"
  /\ UNCHANGED setupVars
  /\ UNCHANGED <<running, exit, queue, connected, delivered, sent, event, request, calls, push, mutex>>

\* Mutant of RecvSignalTimeout: sig_rcv.recv(), which yields Err only once
\* the push thread has dropped its sender.
RecvSignalUnbounded ==
  /\ Alive /\ pc = "wait_push" /\ signal = 0 /\ push = "panicked"
  /\ pc' = "returned"
  /\ waited' = 0
  /\ UNCHANGED setupVars
  /\ UNCHANGED <<running, exit, queue, connected, delivered, sent, event, request, calls,
                 push, mutex, signal>>

\* sig_rcv.recv_timeout(5 s) yields Err once the 5 seconds are over: run
\* returns.
RecvSignalTimeout ==
  /\ Alive /\ pc = "wait_push" /\ signal = 0 /\ waited = PUSH_TIMEOUT
  /\ pc' = "returned"
  /\ waited' = 0
  /\ UNCHANGED setupVars
  /\ UNCHANGED <<running, exit, queue, connected, delivered, sent, event, request, calls,
                 push, mutex, signal>>

\* run returned: WatchArgs::run and main return Ok(()).
ProcessExit ==
  /\ Alive /\ pc = "returned"
  /\ exit' = "ok"
  /\ UNCHANGED setupVars
  /\ UNCHANGED <<running, pc>>
  /\ UNCHANGED loopVars

\* ------------------------------------------------------ the push thread
\* repo.try_lock().unwrap(), which panics when the mutex is held; then
\* r.push(self.authentication_method) is called.
PushCall ==
  /\ Alive /\ push = "spawned"
  /\ IF mutex = "free"
     THEN /\ mutex' = "held"
          /\ calls' = Append(calls, Call("push", <<watch.authentication_method.kind>>, "pending"))
          /\ push' = "pushing"
     ELSE /\ push' = "panicked"
          /\ UNCHANGED <<mutex, calls>>
  /\ UNCHANGED setupVars
  /\ UNCHANGED <<running, pc, exit, queue, connected, delivered, sent, event, request, signal, waited>>

\* push returns (it may also never return).
PushReturn ==
  /\ Alive /\ push = "pushing"
  /\ \E res \in Results(repo) :
       calls' = [calls EXCEPT ![Len(calls)].res = res]
  /\ push' = "returned"
  /\ UNCHANGED mutex
  /\ UNCHANGED setupVars
  /\ UNCHANGED <<running, pc, exit, queue, connected, delivered, sent, event, request, signal, waited>>

\* Mutant of PushSend: r.push(..).unwrap(), a failed push panics the push
\* thread before it sends the signal.
PushSendOnlyOk ==
  /\ Alive /\ push = "returned"
  /\ mutex' = "free"
  /\ IF pc = "wait_push" /\ calls[Len(calls)].res = "Ok"
     THEN signal' = signal + 1 /\ push' = "sent"
     ELSE signal' = signal /\ push' = "panicked"
  /\ UNCHANGED setupVars
  /\ UNCHANGED <<running, pc, exit, queue, connected, delivered, sent, event, request, calls,
                 waited>>

\* sig_snd.send(()).unwrap(): Err once run has dropped sig_rcv.  The
\* closure ends either way and drops the MutexGuard.
PushSend ==
  /\ Alive /\ push = "returned"
  /\ mutex' = "free"
  /\ IF pc = "wait_push"
     THEN signal' = signal + 1 /\ push' = "sent"
     ELSE signal' = signal /\ push' = "panicked"
  /\ UNCHANGED setupVars
  /\ UNCHANGED <<running, pc, exit, queue, connected, delivered, sent, event, request, calls,
                 waited>>

\* ------------------------------------------------------- environment
\* The ctrlc handler of main: r.store(false, SeqCst).
Cancel ==
  /\ Alive /\ running
  /\ running' = FALSE
  /\ UNCHANGED setupVars
  /\ UNCHANGED <<pc, exit>>
  /\ UNCHANGED loopVars

WatcherLives == pc \in {"while", "recv_timeout", "stage", "commit", "stage_all",
                        "exit_commit", "push_on_exit", "wait_push"}

\* The watcher's thread sends a debounced event.
Deliver ==
  /\ Alive /\ WatcherLives /\ connected /\ delivered < MaxEvents
  /\ \E ev \in Events : queue' = Append(queue, ev) /\ sent' = Append(sent, ev)
  /\ delivered' = delivered + 1
  /\ UNCHANGED setupVars
  /\ UNCHANGED <<running, pc, exit, connected, event, request, calls, push, mutex, signal, waited>>

\* The watcher's thread ends and drops its sender.
Disconnect ==
  /\ Alive /\ WatcherLives /\ connected
  /\ connected' = FALSE
  /\ UNCHANGED setupVars
  /\ UNCHANGED <<running, pc, exit, queue, delivered, sent, event, request, calls, push, mutex, signal, waited>>

Setup == UpdateFromConfig \/ ListWatchedDirectories \/ OpenRepository \/ WatchNew \/ Subscribe
Main ==
  \/ Setup
  \/ LoopCheck \/ RecvEvent \/ RecvNothing \/ Stage \/ Commit
  \/ StageAll \/ ExitCommit \/ SpawnPush \/ NoPush
  \/ WaitTick \/ RecvSignal \/ RecvSignalTimeout \/ ProcessExit
PushThread == PushCall \/ PushReturn \/ PushSend
Environment == Cancel \/ Deliver \/ Disconnect

Next == Main \/ PushThread \/ Environment

Spec == Init /\ [][Next]_vars

\* The main thread keeps running while it can take a step.
FairSpec == Spec /\ WF_vars(Main)

\* ================================================================ claims
LoopPcs == {"while", "recv_timeout", "stage", "commit"}
ShutdownPcs == {"stage_all", "exit_commit", "push_on_exit", "wait_push", "returned"}
Ended == pc = "returned" \/ exit # "none"

IsExitCommit(c) == c.op = "commit" /\ c.arg # <<>> /\ c.arg[1] = "nabu exited snapshot @ "
StageAllCalls == {i \in 1..Len(calls) : calls[i].op = "stage_all"}
ExitCommitCalls == {i \in 1..Len(calls) : IsExitCommit(calls[i])}
PushCalls == {i \in 1..Len(calls) : calls[i].op = "push"}
Contains(message, piece) == \E i \in 1..Len(message) : message[i] = piece

\* C1: a run that observed the cancellation flag has, when it ends, called
\* stage_all exactly once and then the exit-snapshot commit exactly once.
C1_ShutdownStagesAllAndCommitsOnce ==
  (Ended /\ pc \in ShutdownPcs) =>
    /\ Cardinality(StageAllCalls) = 1
    /\ Cardinality(ExitCommitCalls) = 1
    /\ \A i \in StageAllCalls, j \in ExitCommitCalls : j = i + 1

\* C2: once the main thread waits for the push thread's signal, it leaves
\* the wait and run returns, whatever the push thread does.
C2_PushWaitAlwaysEnds == (pc = "wait_push") ~> (pc = "returned")

\* C2 witness: run has returned while the push call has not.
C2_Witness == pc = "returned" /\ push = "pushing"

\* C3: once the flag is set while the main thread is in the run loop, the
\* main thread eventually starts the shutdown sequence.
C3_CancelLeadsToShutdown == (~running /\ pc \in LoopPcs) ~> (pc \in ShutdownPcs)

C5_OneStageThenOneCommitPerEvent ==
  (request.outcome = "request" /\ (pc = "while" \/ exit # "none")) =>
    /\ Len(calls) >= 2
    /\ calls[Len(calls) - 1].op = "stage" /\ calls[Len(calls) - 1].arg = <<request.path>>
    /\ calls[Len(calls)].op = "commit" /\ calls[Len(calls)].arg = request.message

SinglePathPrefix(kind) ==
  CASE kind = "Create" -> "created file "
    [] kind = "Write" -> "written file "
    [] kind = "Chmod" -> "chmod file "
    [] kind = "Remove" -> "deleted file "
    [] OTHER -> ""

\* C6: every Create, Write, Chmod or Remove event on a path that is not a
\* directory yields a request for that path whose message is the kind's
\* prefix, the path, " @ " and a timestamp; the stage call names the path.
C6_SinglePathEventYieldsItsRequest ==
  (event.kind \in {"Create", "Write", "Chmod", "Remove"} /\ ~is_dir(event.path)) =>
    /\ request.outcome = "request"
    /\ request.path = event.path
    /\ \E now \in Timestamps :
         request.message = <<SinglePathPrefix(event.kind), event.path, " @ ", now>>
    /\ (pc = "commit" /\ Alive) => calls[Len(calls)] = Call("stage", <<event.path>>, "Ok")

Suppressed(ev) ==
  \/ ev.kind = "Create" /\ is_dir(ev.path)
  \/ ev.kind \in {"NoticeWrite", "NoticeRemove"}

\* C7: receiving a Create event for a directory or a notice event makes no
\* backend call and takes the main thread back to the loop condition.
C7_SuppressedEventMakesNoCall ==
  [][(pc = "recv_timeout" /\ queue # <<>> /\ queue' = Tail(queue) /\ Suppressed(Head(queue)))
       => (calls' = calls /\ pc' = "while" /\ exit' = "none"
           /\ request'.outcome = "return")]_vars

\* C7 witness: a Create event for a directory was received and dropped.
C7_Witness ==
  /\ event = Ev("Create", "w/sub", "") /\ pc = "while" /\ request.outcome = "return"
  /\ \A i \in 1..Len(calls) : calls[i].arg # <<"w/sub">>

\* C8: the request of a Rename event names the new path, not the old one,
\* its message names both, and the stage call is made with the new path.
C8_RenameStagesNewPath ==
  (event.kind = "Rename" /\ request.outcome = "request") =>
    /\ request.path = event.new
    /\ request.path # event.path
    /\ Contains(request.message, event.path) /\ Contains(request.message, event.new)
    /\ request.message[1] = "renamed file "
    /\ (pc = "commit" /\ Alive) => calls[Len(calls)] = Call("stage", <<event.new>>, "Ok")

\* C8 witness: stage was called for a Rename event.
C8_Witness == event = Ev("Rename", "w/a.txt", "w/b.txt") /\ pc = "commit" /\ Alive

Merged == pc \in {"list_watched_directories", "open_repository", "Watch::new"}
\* The delay a readable settings file gives (a missing key is the default).
FileDelay(file) == IF file.delay = {} THEN 30 ELSE Unwrap(file.delay)
Readable(file) == file.state = "ok"

\* C9: after the merge the delay is the CLI value when one was given; else
\* the value of the settings file that was loaded (--config, else local,
\* else global); else, with no readable settings file, 30.  The delay
\* handed to the watcher is the merged delay.
C9_DelayPrecedence ==
  Merged =>
    /\ cli.delay # {} => args.delay = cli.delay
    /\ (cli.delay = {} /\ cli.config # {}) => args.delay = {FileDelay(settings.explicit)}
    /\ (cli.delay = {} /\ cli.config = {} /\ Readable(settings.local))
         => args.delay = {FileDelay(settings.local)}
    /\ (cli.delay = {} /\ cli.config = {} /\ ~Readable(settings.local) /\ Readable(settings.global))
         => args.delay = {FileDelay(settings.global)}
    /\ (cli.delay = {} /\ cli.config = {} /\ ~Readable(settings.local) /\ ~Readable(settings.global))
         => args.delay = {30}
    /\ pc # "list_watched_directories" => delay = args.delay

\* C9 witness: the CLI delay 7 was kept although the loaded file says 12.
C9_Witness ==
  /\ pc = "Watch::new" /\ cli.delay = {7} /\ cli.config = {}
  /\ settings.local = TomlFull /\ delay = {7}

\* C10: no settings file that is missing or not parseable aborts the merge.
C10_UnreadableSettingsNeverAbort == ~(pc = "update_from_config" /\ exit # "none")

\* No agent, no key path, and not both a username and a password.
NoAuthResolves(a) ==
  /\ ~a.auth.ssh_agent
  /\ a.auth.ssh_key = {}
  /\ (a.auth.https_username = {} \/ a.auth.https_password = {})

\* C11: when the merged push_on_exit is true and no authentication method
\* resolves, the run has made no backend call and subscribed no directory
\* when it comes to resolve the method, and from there it only fails: it
\* never goes on to the watcher or the run loop.
C11_UnresolvedAuthFailsSetup ==
  [][(pc = "Watch::new" /\ args.push_on_exit /\ NoAuthResolves(args)) =>
       /\ calls = <<>> /\ ~connected
       /\ pc' = "Watch::new" /\ calls' = <<>> /\ ~connected'
       /\ exit' \in {exit, "panic"}]_vars

\* C11 witness: the run ended in Watch::new on a panic, push_on_exit merged
\* in from the settings file and no authentication flag given.
C11_Witness ==
  /\ pc = "Watch::new" /\ exit = "panic"
  /\ args.push_on_exit /\ ~cli.push_on_exit /\ NoAuthResolves(args)

LastCall == calls[Len(calls)]
EventCall(c) == c.op = "stage" \/ (c.op = "commit" /\ ~IsExitCommit(c))
ShutdownCall(c) == c.op = "stage_all" \/ IsExitCommit(c)

\* C12: a stage or commit call that fails for an event does not end the run:
\* the process is still alive after it (the event is dropped and the loop
\* goes on).
C12_EventFailureIsDropped ==
  (calls # <<>> /\ EventCall(LastCall) /\ LastCall.res = "Err") => exit = "none"

\* C13: a failing final stage_all or exit-snapshot commit does not end the
\* run by a panic: the shutdown goes on and the exit is clean.
C13_ShutdownFailureIsLogged ==
  (calls # <<>> /\ ShutdownCall(LastCall) /\ LastCall.res = "Err") => exit # "panic"

\* C14: push is called at most once in a run; once it has been called the
\* process never ends by a panic, whatever push returns; and the push thread
\* sends the completion signal whenever run still waits for it: it fails to
\* only after run has given up waiting.
C14_PushOnceAndNeverFatal ==
  /\ Cardinality(PushCalls) <= 1
  /\ PushCalls # {} => exit \in {"none", "ok"}
  /\ push = "panicked" => pc = "returned"
  /\ push = "sent" => (signal = 1 \/ pc = "returned")

\* C14 witness: push returned Err, the signal was sent and received, and the
\* process exited cleanly.
C14_Witness ==
  /\ push = "sent" /\ signal = 0 /\ exit = "ok"
  /\ LastCall.op = "push" /\ LastCall.res = "Err"

\* The directories on the way from the root down to d, both included.
Parent(p) == CHOOSE q \in DirPaths : p \in Children(q)
RECURSIVE UpTo(_)
UpTo(d) == IF d = Root THEN {d} ELSE {d} \cup UpTo(Parent(d))
Listed == pc \in {"open_repository", "Watch::new"}

\* C15: the watch list is every directory of the tree under the root except
\* the directories that have an excluded basename themselves or lie below a
\* directory that has one.
C15_ExclusionPrunesSubtree ==
  Listed =>
    watchlist = {d \in DirPaths : \A a \in UpTo(d) : file_name(a) \notin Range(args.ignore)}

\* C15 witness: with .git excluded, .git/objects is not listed although
\* "objects" is not excluded.
C15_Witness ==
  /\ Listed /\ args.ignore = <<".git">>
  /\ watchlist = {"w", "w/sub"}

\* The push timeout the run was configured with: what the loaded settings
\* file asks for, or the default of 5 seconds.
ConfiguredPushTimeout == IF asked = {} THEN 5 ELSE Unwrap(asked)

NoIgnoreSupplied ==
  /\ cli.ignore = <<>>
  /\ settings.explicit.ignore = {} /\ settings.local.ignore = {} /\ settings.global.ignore = {}

\* C17: with no ignore list supplied the merged ignore list is <<".git">>,
\* and neither .git nor a directory below it is in the watch list.
C17_DefaultIgnoreIsGit ==
  (Listed /\ NoIgnoreSupplied) =>
    /\ args.ignore = <<".git">>
    /\ watchlist \cap {"w/.git", "w/.git/objects"} = {}

\* The event-driven calls of the log, in the order they were made.
EventCalls == SelectSeq(calls, EventCall)
YieldsRequest(ev) == Translate(ev, "T1").outcome = "request"
\* The events received so far that yield a request, in delivery order.
ReceivedRequests == SelectSeq(SubSeq(sent, 1, Len(sent) - Len(queue)), YieldsRequest)
\* A message without its timestamp.
Undated(message) == SubSeq(message, 1, Len(message) - 1)

\* C18: the event-driven calls follow the delivery order: the calls 2k-1 and
\* 2k of the log are the stage and the commit of the k-th delivered event
\* that yields a request, every call that has a successor returned Ok, and
\* when the loop turns to receive again both calls of every received event
\* have been made.
C18_EventsHandledInDeliveryOrder ==
  /\ Len(EventCalls) <= 2 * Len(ReceivedRequests)
  /\ \A i \in 1..Len(EventCalls) :
       LET r == Translate(ReceivedRequests[(i + 1) \div 2], "T1") IN
       /\ i % 2 = 1 => (EventCalls[i].op = "stage" /\ EventCalls[i].arg = <<r.path>>)
       /\ i % 2 = 0 => (EventCalls[i].op = "commit"
                          /\ Undated(EventCalls[i].arg) = Undated(r.message))
       /\ i < Len(EventCalls) => EventCalls[i].res = "Ok"
  /\ (Alive /\ pc \in {"while", "recv_timeout"}) =>
       (Len(EventCalls) = 2 * Len(ReceivedRequests)
          /\ (EventCalls # <<>> => EventCalls[Len(EventCalls)].res = "Ok"))

\* C18 witness: two different events were delivered and both pairs of calls
\* have been made, for different paths.
C18_Witness ==
  /\ Len(sent) = 2 /\ sent[1] # sent[2] /\ Len(EventCalls) = 4
  /\ EventCalls[1].arg # EventCalls[3].arg

ShutdownStarted == \E i \in 1..Len(calls) : ShutdownCall(calls[i])

\* C19: an event-driven call is made only by the run loop, before any call
\* of the shutdown sequence and before the push thread exists; stage_all is
\* called only when the last event-driven call, if any, is a commit that
\* returned; and once the main thread is in the shutdown sequence it stays
\* there and receives no event, whatever the watcher still delivers.
C19_ShutdownAfterLastEventCommit ==
  [][/\ Len(calls') = Len(calls) + 1 =>
          LET c == calls'[Len(calls')] IN
          /\ EventCall(c) => (pc \in {"stage", "commit"} /\ ~ShutdownStarted /\ push = "none")
          /\ ShutdownCall(c) => push = "none"
          /\ c.op = "stage_all" =>
               (calls = <<>> \/ (LastCall.op = "commit" /\ LastCall.res = "Ok"))
     /\ pc \in ShutdownPcs =>
          (pc' \in ShutdownPcs /\ event' = event /\ Len(queue') >= Len(queue))]_vars

\* C19 witness: the run returned after an event was committed and the exit
\* snapshot made, with an event still in the queue.
C19_Witness ==
  /\ pc = "returned" /\ queue # <<>>
  /\ EventCalls # <<>> /\ ExitCommitCalls # {}

\* After the handoff the main thread only waits or has returned; the push
\* thread finds the mutex free when it comes to lock it, and it panics, if
\* it does, only after its push call (on the send).
HandedOver ==
  /\ push # "none" => pc \in {"wait_push", "returned"}
  /\ push = "spawned" => mutex = "free"
  /\ push = "panicked" => PushCalls # {}
  /\ mutex = "held" => push \in {"pushing", "returned"}

\* C20: once the backend is handed to the push thread, the only call made
\* on it is the push thread's push, the main thread does nothing but wait,
\* and the push thread's try_lock never finds the mutex held.
C20_OnlyPushThreadUsesBackendAfterHandoff ==
  [][/\ HandedOver /\ HandedOver'
     /\ (push # "none" /\ Len(calls') = Len(calls) + 1) =>
          (push = "spawned" /\ calls'[Len(calls')].op = "push" /\ pc' = pc)]_vars

\* C20 witness: the push thread holds the backend in its push call while
\* the main thread waits.
C20_Witness ==
  /\ push = "pushing" /\ mutex = "held" /\ pc = "wait_push" /\ waited > 0
  /\ LastCall.op = "push"

\* C21: a disconnected event stream does not end the run: with the sender
\* gone and nothing left to receive the process is alive in the run loop,
\* and a run whose stream is disconnected goes through its shutdown
\* sequence without a panic.
C21_DisconnectNeverEndsRun ==
  /\ (~connected /\ pc \in {"while", "recv_timeout"} /\ queue = <<>> /\ event = NoEvent)
       => exit = "none"
  /\ (~connected /\ pc \in ShutdownPcs) => exit # "panic"

IsSuffix(q, s) == Len(q) <= Len(s) /\ q = SubSeq(s, Len(s) - Len(q) + 1, Len(s))
IsPrefix(q, s) == Len(q) <= Len(s) /\ q = SubSeq(s, 1, Len(q))

\* C22 as claimed: when run returns, no delivered event is left in the
\* queue untranslated.
C22_EveryDeliveredEventTranslated == pc = "returned" => queue = <<>>

\* C22 as amended: the queue is always the tail of what was delivered; an
\* event is handed to the translation only by the step that takes it off the
\* head of the queue, so none is translated twice; and once the main thread
\* is in the shutdown sequence nothing is taken off the queue any more: the
\* events still queued stay untranslated.
C22_EventsTranslatedAtMostOnce ==
  [][/\ IsSuffix(queue, sent) /\ IsSuffix(queue', sent')
     /\ (event' # event /\ event' # NoEvent) =>
          (pc = "recv_timeout" /\ queue # <<>> /\ event' = Head(queue) /\ queue' = Tail(queue))
     /\ Len(queue') < Len(queue) => (event' = Head(queue) /\ queue' = Tail(queue))
     /\ pc \in ShutdownPcs => IsPrefix(queue, queue')]_vars

\* C22 witness: of two delivered events the first was translated, staged and
\* committed, and the second is still queued when the loop has ended.
C22_Witness ==
  /\ pc = "stage_all" /\ Len(sent) = 2 /\ queue = <<sent[2]>>
  /\ Len(EventCalls) = 2 /\ YieldsRequest(sent[2])

Fatal(ev) == ev.kind \in {"Rescan", "Error"}
\* The run ended by a panic on the receive, with no shutdown call and no
\* push thread.
AbortedInLoop ==
  /\ exit = "panic" /\ pc = "recv_timeout"
  /\ ~ShutdownStarted /\ PushCalls = {} /\ push = "none"

\* C23: the run ends by a panic at the receive of a Rescan or an Error:
\* from then on no event is received and no call is made, neither for an
\* event nor stage_all, the exit commit or a push.
C23_RescanOrErrorIsFatal ==
  [][/\ Fatal(event) => (AbortedInLoop /\ event' = event /\ queue' = queue /\ calls' = calls)
     /\ Fatal(event') => AbortedInLoop']_vars

\* C23 witness: the run panicked on a Rescan with push_on_exit set, the flag
\* already cleared and another event still queued.
C23_Witness ==
  /\ event.kind = "Rescan" /\ exit = "panic"
  /\ queue # <<>> /\ ~running /\ watch.push_on_exit

\* C24: the delay the watcher is created with is greater than 0.
C24_DelayIsPositive == pc = "watcher" => \A d \in delay : d > 0

\* Past the setup the Watch value holds a resolved authentication method.
AuthResolvedPastSetup ==
  pc \in ({"watcher"} \cup LoopPcs \cup ShutdownPcs) =>
    watch.authentication_method.kind \in {"SshAgent", "SshKey", "Https"}

\* C25: a run with no authentication flag at all ends in Watch::new by a
\* panic, whatever push_on_exit is, before any directory is subscribed or
\* any backend call made; the watcher, the run loop and the shutdown
\* sequence are reached only with a resolved authentication method.
C25_AuthResolvedBeforeRunLoop ==
  [][/\ (pc = "Watch::new" /\ args.auth = AuthNone) =>
          (pc' = "Watch::new" /\ exit' \in {exit, "panic"} /\ calls' = <<>> /\ ~connected')
     /\ AuthResolvedPastSetup /\ AuthResolvedPastSetup']_vars

\* C25 witness: the run ended in Watch::new by a panic with push_on_exit
\* false and no authentication flag.
C25_Witness ==
  /\ pc = "Watch::new" /\ exit = "panic"
  /\ ~args.push_on_exit /\ args.auth = AuthNone /\ args.dry_run

====
